---- MODULE Spec2Model ----
(***************************************************************************)
(* A model of the Nyx SDK client: the lazy-setup and retry-on-401          *)
(* decorators around the HTTP helpers of NyxClient (for one caller, and    *)
(* for threads that share the decorated function), the parameter checks    *)
(* and metadata payload of create_data/update_data, the Data descriptor    *)
(* (construction, content type, cached download), and the Parser: tabular  *)
(* ingestion into a sqlite store with its manifest, the chunking of text   *)
(* and the TF-IDF chunk index with its queries.                            *)
(***************************************************************************)
EXTENDS Integers, Sequences, FiniteSets, TLC

VARIABLES
    cfg_token,    \* config.override_token the client was constructed with
    token,        \* NyxClient._token
    is_setup,     \* NyxClient._is_setup
    retried,      \* wrapper._retried of each auth_retry-wrapped function
    stack,        \* the Python call stack of the client (bottom first)
    ret,          \* value returned by the frame that returned last
    result,       \* outcome of the current top-level call
    retval,       \* value the top-level call returned
    att,          \* responses received by the tracked operation's own attempts
    reauths,      \* _authorise(refresh=True) invocations during the tracked operation
    setupRuns,    \* number of times _setup was entered on this client
    setupOk,      \* _setup has run to completion on this client
    setupFailed,  \* _setup raised during the current top-level call
    nsent,        \* HTTP requests sent during the current top-level call
    bodyRan,      \* the body of create_data/update_data built a payload in this call
    payload,      \* the metadata payload built by create_data/update_data
    topKind,      \* which operation the current top-level call is
    topArgs,      \* the arguments of the current create_data/update_data call
    ncalls,       \* number of top-level calls started
    sent,         \* the requests sent during the current top-level call, in order
    d_kwargs,     \* keyword arguments Data(**kwargs) was called with
    d_obj,        \* the constructed Data object's fields, or NoObj
    d_err,        \* the exception Data(**kwargs) raised, or "none"
    d_content,    \* Data._content, the download cache
    d_last,       \* what the last download() call returned
    d_calls,      \* download() calls made
    d_fetches,    \* HTTP GETs issued by download()
    d_ok,         \* HTTP GETs of download() that succeeded
    d_refetch,    \* HTTP GETs issued after a download() had already succeeded
    ct_in,        \* the mediaType a Data descriptor is constructed with
    ct_stored,    \* Data._content_type
    ct_out,       \* what the content_type property returned
    ct_pc,        \* "new", "built" or "read"
    db_data,      \* data: the descriptors data_as_db is called with
    db_extra,     \* titles of additional_information's chunks (metadata[i].title)
    db_if_exists, \* the if_exists argument of data_as_db
    db_store,     \* the tables of the sqlite store, the manifest apart
    db_manifest,  \* rows of the nyx_subscriptions table; <<>> when there is no such table
    db_tables,    \* the local list "tables" of the running data_as_db call
    db_i,         \* position of the loop over data
    db_j,         \* position of the loop over additional_information.chunks
    db_pc,        \* "idle", "loop", "extra" or "done"
    db_runs,      \* data_as_db calls that have ended
    db_raised,    \* the last data_as_db call ended by raising
    db_snap,      \* the store as the first call left it
    p_chunks,     \* Parser.chunks
    p_metadata,   \* Parser.metadata
    p_vectorizer, \* Parser.vectorizer: None, "unfitted" or "fitted"
    p_vectors,    \* Parser.vectors: None, or the chunks the matrix was fitted on
    all_chunks,   \* all_chunks of the running, or else the last, data_as_vectors call
    all_metadata, \* all_metadata of that call
    v_pc,         \* "idle", or "loop" while data_as_vectors goes through its list
    v_size,       \* chunk_size of the running data_as_vectors call
    v_n,          \* datasets the running data_as_vectors call has gone through
    v_prev,       \* number of chunks the index held before the last data_as_vectors call
    v_builds,     \* data_as_vectors calls made
    v_yielded,    \* some data_as_vectors call so far produced at least one chunk
    v_raised,     \* the last data_as_vectors call raised
    q_in,         \* k and the similarity scores of the last query
    q_out,        \* what the last query returned
    q_calls,      \* query calls made since the last data_as_vectors call
    ck_text,      \* the text _chunk_text is called with
    ck_size,      \* the chunk_size _chunk_text is called with
    ck_out,       \* what _chunk_text returned
    ck_pc,        \* "new" or "done"
    w_retried,    \* _retried of the wrapper of _nyx_get, one attribute for all clients and threads
    w_call        \* for each thread, the _nyx_get call it makes on its own client

authVars == <<cfg_token, token, is_setup, retried, stack, ret, result, retval, att,
              reauths, setupRuns, setupOk, setupFailed, nsent, bodyRan, payload,
              topKind, topArgs, ncalls, sent>>

dataVars == <<d_kwargs, d_obj, d_err, d_content, d_last, d_calls, d_fetches, d_ok, d_refetch>>

ctVars == <<ct_in, ct_stored, ct_out, ct_pc>>

dbVars == <<db_data, db_extra, db_if_exists, db_store, db_manifest, db_tables, db_i, db_j,
            db_pc, db_runs, db_raised, db_snap>>

indexVars == <<p_chunks, p_metadata, p_vectorizer, p_vectors, all_chunks,
               all_metadata, v_pc, v_size, v_n, v_prev,
               v_builds, v_yielded, v_raised, q_in, q_out, q_calls>>

chunkVars == <<ck_text, ck_size, ck_out, ck_pc>>

parserVars == <<dbVars, indexVars, chunkVars>>

threadVars == <<w_retried, w_call>>

vars == <<authVars, dataVars, ctVars, parserVars, threadVars>>

\* ---------------------------------------------------------------- bounds
MaxCalls == 2
MaxCreates == 1
MaxCircles == 1
MaxDepth == 8
MaxDownloads == 3
MaxCtLen == 6
MaxTitleLen == 1
MaxData == 2
MaxExtra == 2
MaxRuns == 2
MaxDocs == 2
MaxChunkSize == 2
MaxBuilds == 2
MaxSim == 1
MaxK == 2
MaxTextLen == 5
MaxThreads == 2

\* ---------------------------------------------------------------- values
None == "None"

\* Python truthiness of an optional string / object
Truthy(v) == v \notin {None, ""}

Ops == {"get", "post", "patch"}
Bodies == {"b1", "b2"}
HttpErrors == {401, 403, 500}

\* A response: st = 200 success, st in HttpErrors raise_for_status() raises
\* HTTPError, st = 0 the transport raised ConnectionError.
Responses == [st : {200}, body : Bodies] \cup [st : HttpErrors \cup {0}, body : {""}]

ExcName(r) == IF r.st = 0 THEN "ConnectionError"
              ELSE IF r.st = 401 THEN "HTTP401" ELSE "HTTPError"

Errors == {"ConnectionError", "HTTP401", "HTTPError", "ValueError"}

NYX_AUTH_LOGIN_ENDPOINT == "auth/login"
NYX_USERS_ME_ENDPOINT == "users/me"
NYX_AUTH_QAPI_CONNECTION_ENDPOINT == "auth/qapi-connection"
NYX_PRODUCTS_ENDPOINT == "products"

CircleSeqs == UNION {[1..n -> {"c1"}] : n \in 0..MaxCircles}

CreateArgs == [download_url : {None, "u"}, file : {None, "f"},
               access_control : {None, "all", "none"}, circles : CircleSeqs]

NoArgs == [download_url |-> None, file |-> None, access_control |-> None, circles |-> <<>>]

Absent == <<"absent">>
NoPayload == [accessControl |-> Absent, circles |-> Absent, downloadURL |-> Absent]

Frame(fn, pc, op, ep, refresh, tracked) ==
    [fn |-> fn, pc |-> pc, op |-> op, ep |-> ep, refresh |-> refresh, tracked |-> tracked]

Top == stack[Len(stack)]
Pop == SubSeq(stack, 1, Len(stack) - 1)
WithTopPc(pc) == [stack EXCEPT ![Len(stack)].pc = pc]

\* a frame that is inside the try block of the auth_retry wrapper
InTry(f) == f.fn = "call" /\ f.pc \in {"try1", "try2"}
TrackedInTry == \E i \in 1..Len(stack) : stack[i].tracked /\ InTry(stack[i])

\* (mutation) no finally clause: an exception leaves the flags as they are
UnwoundKept(rt) == rt

\* The finally clauses run while an exception unwinds the whole stack:
\* every auth_retry wrapper being unwound resets its function's flag.
Unwound(rt) ==
    [o \in Ops |-> IF \E i \in 1..Len(stack) : InTry(stack[i]) /\ stack[i].op = o
                   THEN FALSE ELSE rt[o]]

SetupOnStack == \E i \in 1..Len(stack) : stack[i].fn = "setup"

\* ------------------------------------------------------- Data values
Missing == "Missing"
KwValues == {Missing, "", "x"}
DataKwargs == [title : KwValues, org : KwValues, access_url : KwValues, download_url : KwValues]
NoKwargs == [title |-> Missing, org |-> Missing, access_url |-> Missing, download_url |-> Missing]
NoObj == [built |-> FALSE, title |-> None, org |-> None, access_url |-> None, download_url |-> None]

\* texts a download can return; "fail" stands for a requests.RequestException
Texts == {"", "c1", "c2"}
Fetches == Texts \cup {"fail"}

Chars == {"h", "t", "p", "/", "c"}
Strings == UNION {[1..n -> Chars] : n \in 0..MaxCtLen}
Http == <<"h", "t", "t", "p">>
Unknown == <<"u", "n", "k", "n", "o", "w", "n">>

\* ------------------------------------------------------- Parser values
\* characters of a dataset title, and the titles data_as_db is tried with
TitleChars == {"A", " ", "."}
Titles == UNION {[1..n -> TitleChars] : n \in 1..MaxTitleLen}

\* what d.content_type returns: csv, json, an Excel type, or something else
Excel == "vnd.ms-excel"
CTypes == {"csv", "json", Excel, "pdf"}

\* what d.download() returns, by what pandas makes of it: None when the
\* download failed, "good" a text the reader turns into a frame, "bad" a
\* text it raises ParserError on, "junk" a text it raises another exception
\* on (the empty text gives EmptyDataError)
Readings == {None, "good", "bad", "junk"}

Descriptors == [title : Titles, ctype : CTypes, body : Readings]
DataLists == UNION {[1..n -> Descriptors] : n \in 0..MaxData}
ExtraLists == UNION {[1..n -> Titles] : n \in 0..MaxExtra}
IfExists == {"fail", "replace", "append"}
NoSnap == [taken |-> FALSE, store |-> {}, manifest |-> <<>>]

\* characters of a text: two letters and the blank
TextChars == {"a", "b", " "}
TextStrings == UNION {[1..n -> TextChars] : n \in 0..MaxTextLen}

\* datasets data_as_vectors is tried with; content is what d.download()
\* returns, <<>> standing for None (failed download) and for the empty text
DocTitles == {<<"A">>, <<".">>}
DocTypes == {"csv", "json", "pdf"}
DocTexts == {<<>>, <<" ">>, <<"a">>, <<"a", "b", " ", "a">>}
Documents == [title : DocTitles, ctype : DocTypes, content : DocTexts]
ChunkSizes == 1..MaxChunkSize
Sims == 0..MaxSim

NoQuery == [k |-> 0, sims |-> <<>>]
NoResult == [raised |-> FALSE, success |-> FALSE, message |-> "", chunks |-> <<>>,
             similarities |-> <<>>, metadata |-> <<>>]

DbIdle ==
    /\ db_data = <<>>
    /\ db_extra = <<>>
    /\ db_if_exists = "replace"
    /\ db_store = {}
    /\ db_manifest = <<>>
    /\ db_tables = <<>>
    /\ db_i = 0
    /\ db_j = 0
    /\ db_pc = "idle"
    /\ db_runs = 0
    /\ db_raised = FALSE
    /\ db_snap = NoSnap

\* Parser.__init__: vectors, vectorizer and chunks are None (<<>> stands for
\* None: data_as_vectors never stores an empty list)
IndexIdle ==
    /\ p_chunks = <<>>
    /\ p_metadata = <<>>
    /\ p_vectorizer = None
    /\ p_vectors = <<>>
    /\ all_chunks = <<>>
    /\ all_metadata = <<>>
    /\ v_pc = "idle"
    /\ v_size = 1
    /\ v_n = 0
    /\ v_prev = 0
    /\ v_builds = 0
    /\ v_yielded = FALSE
    /\ v_raised = FALSE
    /\ q_in = NoQuery
    /\ q_out = NoResult
    /\ q_calls = 0

ChunkIdle ==
    /\ ck_text = <<>>
    /\ ck_size = 1
    /\ ck_out = <<>>
    /\ ck_pc = "new"

ParserIdle == DbIdle /\ IndexIdle /\ ChunkIdle

\* threads, each with a client of its own
Threads == 1..MaxThreads
NoCall == [pc |-> "idle", att |-> <<>>, relogin |-> "none", result |-> "none"]

\* no thread has called yet; the decorator has just been applied
ThreadsIdle ==
    /\ w_retried = FALSE
    /\ w_call = [t \in Threads |-> NoCall]

DataIdle ==
    /\ d_kwargs = NoKwargs
    /\ d_obj = NoObj
    /\ d_err = "none"
    /\ d_content = None
    /\ d_last = None
    /\ d_calls = 0
    /\ d_fetches = 0
    /\ d_ok = 0
    /\ d_refetch = 0

CtIdle ==
    /\ ct_in = <<>>
    /\ ct_stored = <<>>
    /\ ct_out = <<>>
    /\ ct_pc = "new"

\* a client as NyxClient.__init__ leaves it, for a config whose override token is tok
ClientNew(tok) ==
    /\ cfg_token = tok
    /\ token = cfg_token
    /\ is_setup = Truthy(cfg_token)
    /\ retried = [o \in Ops |-> FALSE]
    /\ stack = <<>>
    /\ ret = None
    /\ result = "none"
    /\ retval = None
    /\ att = <<>>
    /\ reauths = 0
    /\ setupRuns = 0
    /\ setupOk = FALSE
    /\ setupFailed = FALSE
    /\ nsent = 0
    /\ bodyRan = FALSE
    /\ payload = NoPayload
    /\ topKind = "none"
    /\ topArgs = NoArgs
    /\ ncalls = 0
    /\ sent = <<>>

Init ==
    /\ \E tok \in {"", "ovr"} : ClientNew(tok)
    /\ DataIdle
    /\ CtIdle
    /\ ParserIdle
    /\ ThreadsIdle

\* ------------------------------------------------------- decorator logic
\* ensure_setup: "if not self._is_setup"
NeedSetup(flag) == ~flag

\* (mutation) retry on every HTTP error status that has not been retried yet
ShouldRetryAnyStatus(st, flag) == ~flag

\* (mutation) every 401 is retried, whether or not the call was retried before
ShouldRetryEvery401(st, flag) == st = 401

\* auth_retry: "e.response.status_code == 401 and not getattr(wrapper, '_retried', False)"
ShouldRetry(st, flag) == st = 401 /\ ~flag

\* (mutation) _is_setup is set only after the setup requests returned
SetupMarksLast == FALSE

\* _setup: "self._is_setup = True" is the first statement, before any request
SetupMarksFirst == TRUE

\* _authorise: "if not refresh and self._token is not None: return"
UseExistingToken(refresh, tok) == ~refresh /\ tok # None

\* create_data / update_data: the three parameter checks, in source order
InvalidArgs(a) ==
    \/ (~Truthy(a.download_url) /\ ~Truthy(a.file))
    \/ (Truthy(a.access_control) /\ Len(a.circles) > 0)
    \/ (Truthy(a.download_url) /\ Truthy(a.file))

\* (mutation) the default entry for "neither supplied" is left out
AccessControlNoDefault(a) ==
    IF a.access_control = "all" THEN <<"ALLOW_ALL">>
    ELSE IF a.access_control = "none" THEN <<"ALLOW_NONE">>
    ELSE Absent

\* create_data / update_data: the access-control part of the metadata dict
AccessControlEntry(a) ==
    IF a.access_control = "all" THEN <<"ALLOW_ALL">>
    ELSE IF a.access_control = "none" THEN <<"ALLOW_NONE">>
    ELSE IF Len(a.circles) = 0 /\ a.access_control = None THEN <<"ALLOW_NONE">>
    ELSE Absent

\* "[c.did for c in circles]"
CirclesEntry(a) ==
    IF Len(a.circles) > 0 THEN [i \in 1..Len(a.circles) |-> <<"did", a.circles[i]>>] ELSE Absent

Metadata(a) ==
    [accessControl |-> AccessControlEntry(a),
     circles |-> CirclesEntry(a),
     downloadURL |-> IF Truthy(a.download_url) THEN <<a.download_url>> ELSE Absent]

\* _make_headers: "if self._token: headers['authorization'] = 'Bearer ' + self._token"
MakeHeaders(tok) == IF Truthy(tok) THEN <<"Bearer", tok>> ELSE <<>>

\* one request as the server saw it, with the status it answered
Request(ep, headers, st) == [ep |-> ep, authorization |-> headers, st |-> st]

\* ------------------------------------------------------- frame plumbing
EntryPc(fn) == IF fn = "create" THEN "body" ELSE "try1"

\* the top frame returns val to its caller (or to the user when it is the last)
ReturnFrom(val) ==
    /\ stack' = Pop
    /\ ret' = val
    /\ result' = IF Len(stack) = 1 THEN "ok" ELSE result
    /\ retval' = IF Len(stack) = 1 THEN val ELSE retval

\* an exception leaves the top frame; nothing above the user catches it
RaiseFrom(e, rt) ==
    /\ stack' = <<>>
    /\ result' = e
    /\ retried' = Unwound(rt)
    /\ setupFailed' = (setupFailed \/ SetupOnStack)
    /\ UNCHANGED <<ret, retval>>

ResetCallTrackers ==
    /\ result' = "running"
    /\ retval' = None
    /\ att' = <<>>
    /\ reauths' = 0
    /\ setupFailed' = FALSE
    /\ nsent' = 0
    /\ bodyRan' = FALSE
    /\ payload' = NoPayload
    /\ sent' = <<>>

\* ------------------------------------------------------- top-level calls
\* the user calls _nyx_get / _nyx_post / _nyx_patch on a business endpoint
StartCall(op) ==
    /\ stack = <<>>
    /\ ncalls < MaxCalls
    /\ stack' = <<Frame("call", "ensure", op, NYX_PRODUCTS_ENDPOINT, FALSE, TRUE)>>
    /\ ResetCallTrackers
    /\ topKind' = op
    /\ topArgs' = NoArgs
    /\ ncalls' = ncalls + 1
    /\ UNCHANGED <<cfg_token, token, is_setup, retried, ret, setupRuns, setupOk>>
    /\ UNCHANGED <<dataVars, ctVars, parserVars, threadVars>>

\* the user calls create_data (posts) or update_data (patches)
StartCreate(kind, a) ==
    /\ stack = <<>>
    /\ ncalls < MaxCreates
    /\ stack' = <<Frame("create", "ensure", IF kind = "create_data" THEN "post" ELSE "patch",
                        NYX_PRODUCTS_ENDPOINT, FALSE, FALSE)>>
    /\ ResetCallTrackers
    /\ topKind' = kind
    /\ topArgs' = a
    /\ ncalls' = ncalls + 1
    /\ UNCHANGED <<cfg_token, token, is_setup, retried, ret, setupRuns, setupOk>>
    /\ UNCHANGED <<dataVars, ctVars, parserVars, threadVars>>

\* ------------------------------------------------------- ensure_setup
EnsureSetup ==
    /\ Len(stack) > 0
    /\ Top.pc = "ensure"
    /\ IF NeedSetup(is_setup)
       THEN /\ Len(stack) < MaxDepth
            /\ stack' = Append(WithTopPc("enter"),
                               Frame("setup", "start", "get", NYX_USERS_ME_ENDPOINT, FALSE, FALSE))
       ELSE stack' = WithTopPc(EntryPc(Top.fn))
    /\ UNCHANGED <<cfg_token, token, is_setup, retried, ret, result, retval, att, reauths,
                   setupRuns, setupOk, setupFailed, nsent, bodyRan, payload, topKind,
                   topArgs, ncalls>>
    /\ UNCHANGED <<sent, dataVars, ctVars, parserVars, threadVars>>

\* _setup returned: the wrapper goes on to call the wrapped function
EnterFunc ==
    /\ Len(stack) > 0
    /\ Top.pc = "enter"
    /\ stack' = WithTopPc(EntryPc(Top.fn))
    /\ UNCHANGED <<cfg_token, token, is_setup, retried, ret, result, retval, att, reauths,
                   setupRuns, setupOk, setupFailed, nsent, bodyRan, payload, topKind,
                   topArgs, ncalls>>
    /\ UNCHANGED <<sent, dataVars, ctVars, parserVars, threadVars>>

\* ------------------------------------------------------- NyxClient._setup
SetupBegin ==
    /\ Len(stack) > 0 /\ Len(stack) < MaxDepth
    /\ Top.fn = "setup" /\ Top.pc = "start"
    /\ is_setup' = (IF SetupMarksFirst THEN TRUE ELSE is_setup)
    /\ setupRuns' = setupRuns + 1
    /\ stack' = Append(WithTopPc("me"),
                       Frame("authorise", "start", "post", NYX_AUTH_LOGIN_ENDPOINT, FALSE, FALSE))
    /\ UNCHANGED <<cfg_token, token, retried, ret, result, retval, att, reauths, setupOk,
                   setupFailed, nsent, bodyRan, payload, topKind, topArgs, ncalls>>
    /\ UNCHANGED <<sent, dataVars, ctVars, parserVars, threadVars>>

SetupUsersMe ==
    /\ Len(stack) > 0 /\ Len(stack) < MaxDepth
    /\ Top.fn = "setup" /\ Top.pc = "me"
    /\ stack' = Append(WithTopPc("qapi"),
                       Frame("call", "ensure", "get", NYX_USERS_ME_ENDPOINT, FALSE, FALSE))
    /\ UNCHANGED <<cfg_token, token, is_setup, retried, ret, result, retval, att, reauths,
                   setupRuns, setupOk, setupFailed, nsent, bodyRan, payload, topKind,
                   topArgs, ncalls>>
    /\ UNCHANGED <<sent, dataVars, ctVars, parserVars, threadVars>>

SetupQapi ==
    /\ Len(stack) > 0 /\ Len(stack) < MaxDepth
    /\ Top.fn = "setup" /\ Top.pc = "qapi"
    /\ stack' = Append(WithTopPc("done"),
                       Frame("call", "ensure", "get", NYX_AUTH_QAPI_CONNECTION_ENDPOINT, FALSE, FALSE))
    /\ UNCHANGED <<cfg_token, token, is_setup, retried, ret, result, retval, att, reauths,
                   setupRuns, setupOk, setupFailed, nsent, bodyRan, payload, topKind,
                   topArgs, ncalls>>
    /\ UNCHANGED <<sent, dataVars, ctVars, parserVars, threadVars>>

SetupDone ==
    /\ Len(stack) > 0
    /\ Top.fn = "setup" /\ Top.pc = "done"
    /\ ReturnFrom(None)
    /\ is_setup' = (IF SetupMarksFirst THEN is_setup ELSE TRUE)
    /\ setupOk' = TRUE
    /\ UNCHANGED <<cfg_token, token, retried, att, reauths, setupRuns, setupFailed, nsent,
                   bodyRan, payload, topKind, topArgs, ncalls>>
    /\ UNCHANGED <<sent, dataVars, ctVars, parserVars, threadVars>>

\* ------------------------------------------------------- NyxClient._authorise
Authorise ==
    /\ Len(stack) > 0
    /\ Top.fn = "authorise" /\ Top.pc = "start"
    /\ IF UseExistingToken(Top.refresh, token)
       THEN ReturnFrom(None)
       ELSE /\ Len(stack) < MaxDepth
            /\ stack' = Append(WithTopPc("login"),
                               Frame("call", "ensure", "post", NYX_AUTH_LOGIN_ENDPOINT, FALSE, FALSE))
            /\ UNCHANGED <<ret, result, retval>>
    /\ UNCHANGED <<cfg_token, token, is_setup, retried, att, reauths, setupRuns, setupOk,
                   setupFailed, nsent, bodyRan, payload, topKind, topArgs, ncalls>>
    /\ UNCHANGED <<sent, dataVars, ctVars, parserVars, threadVars>>

\* the login request returned: self._token = resp["access_token"]
AuthoriseDone ==
    /\ Len(stack) > 0
    /\ Top.fn = "authorise" /\ Top.pc = "login"
    /\ token' = ret
    /\ ReturnFrom(None)
    /\ UNCHANGED <<cfg_token, is_setup, retried, att, reauths, setupRuns, setupOk,
                   setupFailed, nsent, bodyRan, payload, topKind, topArgs, ncalls>>
    /\ UNCHANGED <<sent, dataVars, ctVars, parserVars, threadVars>>

\* ------------------------------------------------------- auth_retry
\* first execution of the wrapped request function, inside the try block
Attempt ==
    /\ Len(stack) > 0
    /\ Top.fn = "call" /\ Top.pc = "try1"
    /\ \E r \in Responses :
        /\ nsent' = nsent + 1
        /\ sent' = Append(sent, Request(Top.ep, MakeHeaders(token), r.st))
        /\ att' = IF Top.tracked THEN Append(att, r) ELSE att
        /\ IF r.st = 200
           THEN /\ retried' = [retried EXCEPT ![Top.op] = FALSE]
                /\ ReturnFrom(r.body)
                /\ UNCHANGED <<reauths, setupFailed>>
           ELSE IF r.st # 0 /\ ShouldRetry(r.st, retried[Top.op])
           THEN /\ Len(stack) < MaxDepth
                /\ retried' = [retried EXCEPT ![Top.op] = TRUE]
                /\ reauths' = IF TrackedInTry THEN reauths + 1 ELSE reauths
                /\ stack' = Append(WithTopPc("try2"),
                                   Frame("authorise", "start", "post", NYX_AUTH_LOGIN_ENDPOINT,
                                         TRUE, FALSE))
                /\ UNCHANGED <<ret, result, retval, setupFailed>>
           ELSE /\ RaiseFrom(ExcName(r), retried)
                /\ UNCHANGED reauths
    /\ UNCHANGED <<cfg_token, token, is_setup, setupRuns, setupOk, bodyRan, payload,
                   topKind, topArgs, ncalls>>
    /\ UNCHANGED <<dataVars, ctVars, parserVars, threadVars>>

\* second execution, inside the except block after _authorise(refresh=True) returned
Retry ==
    /\ Len(stack) > 0
    /\ Top.fn = "call" /\ Top.pc = "try2"
    /\ \E r \in Responses :
        /\ nsent' = nsent + 1
        /\ sent' = Append(sent, Request(Top.ep, MakeHeaders(token), r.st))
        /\ att' = IF Top.tracked THEN Append(att, r) ELSE att
        /\ IF r.st = 200
           THEN /\ retried' = [retried EXCEPT ![Top.op] = FALSE]
                /\ ReturnFrom(r.body)
                /\ UNCHANGED setupFailed
           ELSE RaiseFrom(ExcName(r), retried)
    /\ UNCHANGED <<cfg_token, token, is_setup, reauths, setupRuns, setupOk, bodyRan, payload,
                   topKind, topArgs, ncalls>>
    /\ UNCHANGED <<dataVars, ctVars, parserVars, threadVars>>

\* ------------------------------------------------------- create_data / update_data
CreateBody ==
    /\ Len(stack) > 0 /\ Len(stack) < MaxDepth
    /\ Top.fn = "create" /\ Top.pc = "body"
    /\ IF InvalidArgs(topArgs)
       THEN /\ RaiseFrom("ValueError", retried)
            /\ UNCHANGED <<bodyRan, payload>>
       ELSE /\ payload' = Metadata(topArgs)
            /\ bodyRan' = TRUE
            /\ stack' = Append(WithTopPc("wait"),
                               Frame("call", "ensure", Top.op, NYX_PRODUCTS_ENDPOINT, FALSE, FALSE))
            /\ UNCHANGED <<ret, result, retval, retried, setupFailed>>
    /\ UNCHANGED <<cfg_token, token, is_setup, att, reauths, setupRuns, setupOk, nsent,
                   topKind, topArgs, ncalls>>
    /\ UNCHANGED <<sent, dataVars, ctVars, parserVars, threadVars>>

\* the request returned: the response object becomes the returned Data
CreateDone ==
    /\ Len(stack) > 0
    /\ Top.fn = "create" /\ Top.pc = "wait"
    /\ ReturnFrom(ret)
    /\ UNCHANGED <<cfg_token, token, is_setup, retried, att, reauths, setupRuns, setupOk,
                   setupFailed, nsent, bodyRan, payload, topKind, topArgs, ncalls>>
    /\ UNCHANGED <<sent, dataVars, ctVars, parserVars, threadVars>>

\* steps of the client's own machinery, shared by every top-level call
Machinery ==
    \/ EnsureSetup
    \/ EnterFunc
    \/ SetupBegin
    \/ SetupUsersMe
    \/ SetupQapi
    \/ SetupDone
    \/ Authorise
    \/ AuthoriseDone
    \/ Attempt
    \/ Retry

\* a client used through its wrapped request helpers
Next ==
    \/ \E op \in Ops : StartCall(op)
    \/ Machinery

Spec == Init /\ [][Next]_vars

\* a client used through create_data / update_data
NextCreate ==
    \/ \E kind \in {"create_data", "update_data"}, a \in CreateArgs : StartCreate(kind, a)
    \/ CreateBody
    \/ CreateDone
    \/ Machinery

SpecCreate == Init /\ [][NextCreate]_vars

\* the user calls _authorise() itself: refresh defaults to True
StartAuthorise ==
    /\ stack = <<>>
    /\ ncalls < MaxCalls
    /\ stack' = <<Frame("authorise", "start", "post", NYX_AUTH_LOGIN_ENDPOINT, TRUE, FALSE)>>
    /\ ResetCallTrackers
    /\ topKind' = "authorise"
    /\ topArgs' = NoArgs
    /\ ncalls' = ncalls + 1
    /\ UNCHANGED <<cfg_token, token, is_setup, retried, ret, setupRuns, setupOk>>
    /\ UNCHANGED <<dataVars, ctVars, parserVars, threadVars>>

\* a client whose _authorise is called directly, between wrapped calls
NextAuthorise ==
    \/ StartAuthorise
    \/ \E op \in Ops : StartCall(op)
    \/ Machinery

\* the interpreter always takes the next step of a call that is in progress
SpecAuthorise == Init /\ [][NextAuthorise]_vars /\ WF_vars(Machinery)

\* ======================================================= auth_retry, several callers
\* Two threads, each with a client of its own built with an override token,
\* call _nyx_get. auth_retry keeps _retried as an attribute of the wrapper
\* function, which the decorator creates once for the class: every client
\* and every thread reads and writes the same attribute.
CallStep(t, c) ==
    /\ w_call' = [w_call EXCEPT ![t] = c]
    /\ UNCHANGED <<authVars, dataVars, ctVars, parserVars>>

\* the wrapper is left, by return or by raise: "finally: wrapper._retried = False"
CallEnds(t, attempts, relogin, outcome) ==
    /\ w_retried' = FALSE
    /\ CallStep(t, [pc |-> "done", att |-> attempts, relogin |-> relogin, result |-> outcome])

\* thread t calls _nyx_get on its client
ThreadCall(t) ==
    /\ w_call[t].pc = "idle"
    /\ CallStep(t, [NoCall EXCEPT !.pc = "try1"])
    /\ UNCHANGED w_retried

\* the first execution of the request and, when it raised HTTPError, the test
\* of the except block
ThreadAttempt(t) ==
    /\ w_call[t].pc = "try1"
    /\ \E r \in Responses :
        IF r.st = 200 THEN CallEnds(t, <<r>>, "none", "ok")
        ELSE IF r.st # 0 /\ ShouldRetry(r.st, w_retried)
        THEN /\ CallStep(t, [w_call[t] EXCEPT !.pc = "mark", !.att = <<r>>])
             /\ UNCHANGED w_retried
        ELSE CallEnds(t, <<r>>, "none", ExcName(r))

\* "wrapper._retried = True"
ThreadMark(t) ==
    /\ w_call[t].pc = "mark"
    /\ w_retried' = TRUE
    /\ CallStep(t, [w_call[t] EXCEPT !.pc = "reauth"])

\* "self._authorise(refresh=True)": it returns, or the login raises
ThreadReauth(t) ==
    /\ w_call[t].pc = "reauth"
    /\ \/ /\ CallStep(t, [w_call[t] EXCEPT !.pc = "try2", !.relogin = "ok"])
          /\ UNCHANGED w_retried
       \/ \E e \in {"HTTP401", "HTTPError", "ConnectionError"} :
              CallEnds(t, w_call[t].att, "failed", e)

\* the second execution, in the except block
ThreadRetry(t) ==
    /\ w_call[t].pc = "try2"
    /\ \E r \in Responses :
        CallEnds(t, Append(w_call[t].att, r), "ok", IF r.st = 200 THEN "ok" ELSE ExcName(r))

NextThreads ==
    \E t \in Threads :
        \/ ThreadCall(t)
        \/ ThreadAttempt(t)
        \/ ThreadMark(t)
        \/ ThreadReauth(t)
        \/ ThreadRetry(t)

InitThreads == ClientNew("ovr") /\ DataIdle /\ CtIdle /\ ParserIdle /\ ThreadsIdle

SpecThreads == InitThreads /\ [][NextThreads]_vars

\* ======================================================= Data descriptor
\* kwargs.get(k): None for a key that was not passed
Get(kw, k) == IF kw[k] = Missing THEN None ELSE kw[k]

\* (mutation) reject only when title and org are both absent
MissingBothRequired(kw) == ~Truthy(Get(kw, "title")) /\ ~Truthy(Get(kw, "org"))

\* Data.__init__: "if not kwargs.get('title') or not kwargs.get('org')"
MissingRequired(kw) == ~Truthy(Get(kw, "title")) \/ ~Truthy(Get(kw, "org"))

\* Data.__init__: "if not (kwargs.get('access_url') or kwargs.get('download_url'))"
MissingUrl(kw) == ~(Truthy(Get(kw, "access_url")) \/ Truthy(Get(kw, "download_url")))

\* Data(**kwargs)
Construct(kw) ==
    /\ d_kwargs = NoKwargs /\ d_err = "none" /\ ~d_obj.built
    /\ kw # NoKwargs
    /\ d_kwargs' = kw
    /\ IF MissingRequired(kw) \/ MissingUrl(kw)
       THEN /\ d_err' = "KeyError"
            /\ d_obj' = NoObj
       ELSE /\ d_err' = "none"
            /\ d_obj' = [built |-> TRUE, title |-> Get(kw, "title"), org |-> Get(kw, "org"),
                         access_url |-> Get(kw, "access_url"),
                         download_url |-> Get(kw, "download_url")]
    /\ d_content' = None
    /\ UNCHANGED <<d_last, d_calls, d_fetches, d_ok, d_refetch>>
    /\ UNCHANGED <<authVars, threadVars, ctVars, parserVars>>

\* Data.download: "if not self._content" decides whether the content is fetched
NeedsFetch(content) == ~Truthy(content)

\* Data.download()
Download ==
    /\ d_obj.built
    /\ d_calls < MaxDownloads
    /\ d_calls' = d_calls + 1
    /\ IF NeedsFetch(d_content)
       THEN \E f \in Fetches :
            /\ d_fetches' = d_fetches + 1
            /\ d_refetch' = IF d_ok > 0 THEN d_refetch + 1 ELSE d_refetch
            /\ d_ok' = IF f = "fail" THEN d_ok ELSE d_ok + 1
            /\ d_content' = IF f = "fail" THEN d_content ELSE f
            /\ d_last' = d_content'
       ELSE /\ d_last' = d_content
            /\ UNCHANGED <<d_content, d_fetches, d_ok, d_refetch>>
    /\ UNCHANGED <<d_kwargs, d_obj, d_err>>
    /\ UNCHANGED <<authVars, threadVars, ctVars, parserVars>>

NextData ==
    \/ \E kw \in DataKwargs : Construct(kw)
    \/ Download

InitData == ClientNew("") /\ DataIdle /\ CtIdle /\ ParserIdle /\ ThreadsIdle

SpecData == InitData /\ [][NextData]_vars

\* ------------------------------------------------------- content type
StartsWith(s, pre) == Len(s) >= Len(pre) /\ SubSeq(s, 1, Len(pre)) = pre

HasSep(s, sep) == \E i \in 1..Len(s) : s[i] = sep

\* str.split(sep)
RECURSIVE Split(_, _)
Split(s, sep) ==
    IF ~HasSep(s, sep) THEN <<s>>
    ELSE LET k == CHOOSE i \in 1..Len(s) : s[i] = sep /\ \A j \in 1..(i - 1) : s[j] # sep
         IN <<SubSeq(s, 1, k - 1)>> \o Split(SubSeq(s, k + 1, Len(s)), sep)

LastOf(q) == q[Len(q)]

\* (mutation) the final segment is taken whether or not the value starts with http
ContentTypeAlwaysSplit(stored) == LastOf(Split(stored, "/"))

\* Data.content_type: split only when the stored value starts with "http"
ContentType(stored) ==
    IF StartsWith(stored, Http) THEN LastOf(Split(stored, "/")) ELSE stored

\* Data.__init__: "if content_type := kwargs.get('mediaType') ... else 'unknown'"
CtConstruct ==
    /\ ct_pc = "new"
    /\ ct_stored' = IF ct_in # <<>> THEN ct_in ELSE Unknown
    /\ ct_pc' = "built"
    /\ UNCHANGED <<ct_in, ct_out>>
    /\ UNCHANGED <<authVars, threadVars, dataVars, parserVars>>

\* reading data.content_type
CtRead ==
    /\ ct_pc = "built"
    /\ ct_out' = ContentType(ct_stored)
    /\ ct_pc' = "read"
    /\ UNCHANGED <<ct_in, ct_stored>>
    /\ UNCHANGED <<authVars, threadVars, dataVars, parserVars>>

NextContentType ==
    \/ CtConstruct
    \/ CtRead

InitContentType ==
    /\ ClientNew("")
    /\ DataIdle
    /\ ThreadsIdle
    /\ ct_in \in Strings
    /\ ct_stored = <<>>
    /\ ct_out = <<>>
    /\ ct_pc = "new"
    /\ ParserIdle

SpecContentType == InitContentType /\ [][NextContentType]_vars

\* ======================================================= claims: auth_retry
\* the tracked call is over (it returned or raised to the user)
CallOver == stack = <<>> /\ topKind \in Ops

\* C1: a wrapped call whose first attempt is answered 401 and whose second
\* attempt succeeds returns the second attempt's result, has attempted the
\* request exactly twice, and _authorise(refresh=True) was invoked exactly once.
C1_RetryThenSuccess ==
    (CallOver /\ Len(att) >= 2 /\ att[1].st = 401 /\ att[2].st = 200)
        => /\ Len(att) = 2
           /\ result = "ok"
           /\ retval = att[2].body
           /\ reauths = 1

\* C2: a wrapped call whose first attempt is answered 401 and whose retried
\* attempt fails too raises the retried attempt's error, has attempted the
\* request exactly twice, and re-authentication was invoked exactly once.
C2_RetryThenFailure ==
    (CallOver /\ Len(att) >= 2 /\ att[1].st = 401 /\ att[2].st \in HttpErrors)
        => /\ Len(att) = 2
           /\ result = ExcName(att[2])
           /\ reauths = 1

\* C3: a first attempt that fails with anything but 401 (a connection error or
\* another HTTP status) propagates after exactly one attempt, with no
\* re-authentication and no retry.
C3_OtherErrorPropagates ==
    (topKind \in Ops /\ Len(att) >= 1 /\ att[1].st \notin {200, 401})
        => /\ stack = <<>>
           /\ Len(att) = 1
           /\ result = ExcName(att[1])
           /\ reauths = 0

C3_Witness ==
    /\ CallOver
    /\ att = <<[st |-> 500, body |-> ""]>>
    /\ result = "HTTPError"
    /\ reauths = 0

\* ======================================================= claims: ensure_setup
Fresh == ~Truthy(cfg_token)
SetupFrames == {i \in 1..Len(stack) : stack[i].fn = "setup"}

C4_State ==
    /\ Cardinality(SetupFrames) <= 1
    /\ (Fresh /\ ncalls = 1 /\ Len(att) >= 1) => (setupRuns = 1 /\ setupOk)
    /\ (Fresh /\ ncalls = 1 /\ stack = <<>>) => setupRuns = 1

C4_Step ==
    /\ setupOk => setupRuns' = setupRuns
    /\ (SetupOnStack /\ Top.fn # "setup") => setupRuns' = setupRuns

\* C4: on a client built without an override token the first wrapped call runs
\* _setup exactly once, before the operation's own request; once _setup has
\* succeeded no later call runs it again; the requests _setup issues do not
\* re-enter _setup.
C4_SetupOnce == [](C4_State) /\ [][C4_Step]_vars

C4_Witness ==
    /\ Fresh
    /\ ncalls = 2
    /\ setupOk
    /\ setupRuns = 1
    /\ Len(att) >= 1

\* C5: when _setup raises during the call that triggered it, _is_setup is not
\* left set afterwards (so the next wrapped call runs _setup again).
C5_FlagClearedOnSetupFailure ==
    (stack = <<>> /\ setupFailed) => ~is_setup

\* ======================================================= claims: create_data / update_data
IsCreate == topKind \in {"create_data", "update_data"}

\* the combinations the documentation calls usage errors
BadCombination(a) ==
    \/ (a.download_url # None /\ a.file # None)
    \/ (a.download_url = None /\ a.file = None)
    \/ (a.access_control # None /\ a.circles # <<>>)

\* C6: create_data and update_data reject every bad combination with a
\* ValueError before any network request is sent, also on a fresh client.
C6_RejectedBeforeNetwork ==
    (IsCreate /\ stack = <<>> /\ BadCombination(topArgs))
        => (result = "ValueError" /\ nsent = 0)

\* C7: the payload expresses access control in exactly one way: 'all' gives
\* accessControl=[ALLOW_ALL], 'none' gives [ALLOW_NONE], a non-empty circles
\* list gives a circles entry and no accessControl, neither gives [ALLOW_NONE].
C7_AccessControlOneWay ==
    (IsCreate /\ bodyRan) =>
        /\ (topArgs.access_control = "all") =>
              (payload.accessControl = <<"ALLOW_ALL">> /\ payload.circles = Absent)
        /\ (topArgs.access_control = "none") =>
              (payload.accessControl = <<"ALLOW_NONE">> /\ payload.circles = Absent)
        /\ (topArgs.circles # <<>>) =>
              /\ payload.accessControl = Absent
              /\ payload.circles # Absent
              /\ Len(payload.circles) = Len(topArgs.circles)
              /\ \A i \in 1..Len(topArgs.circles) : payload.circles[i] = <<"did", topArgs.circles[i]>>
        /\ (topArgs.access_control = None /\ topArgs.circles = <<>>) =>
              (payload.accessControl = <<"ALLOW_NONE">> /\ payload.circles = Absent)

C7_Witness ==
    /\ IsCreate
    /\ bodyRan
    /\ topArgs.access_control = None
    /\ topArgs.circles = <<>>
    /\ payload.accessControl = <<"ALLOW_NONE">>
    /\ nsent > 0

\* ======================================================= claims: Data
Supplied(kw, k) == kw[k] \notin {Missing, ""}
Attempted == d_kwargs # NoKwargs

\* C8: constructing a Data fails, yielding no object, whenever title or org is
\* missing or empty or neither URL is supplied, and succeeds otherwise.
C8_ConstructionValidated ==
    Attempted =>
        IF /\ Supplied(d_kwargs, "title")
           /\ Supplied(d_kwargs, "org")
           /\ (Supplied(d_kwargs, "access_url") \/ Supplied(d_kwargs, "download_url"))
        THEN d_err = "none" /\ d_obj.built /\ d_obj.title = d_kwargs.title /\ d_obj.org = d_kwargs.org
        ELSE d_err = "KeyError" /\ d_obj = NoObj

C8_Witness ==
    /\ Attempted
    /\ Supplied(d_kwargs, "title")
    /\ ~Supplied(d_kwargs, "org")
    /\ Supplied(d_kwargs, "access_url")
    /\ d_err = "KeyError"
    /\ d_obj = NoObj

NoSlash(s) == \A i \in 1..Len(s) : s[i] # "/"

\* out is what follows the last "/" of s (all of s when it has none)
IsFinalSegment(out, s) ==
    /\ NoSlash(out)
    /\ Len(out) <= Len(s)
    /\ SubSeq(s, Len(s) - Len(out) + 1, Len(s)) = out
    /\ (Len(out) = Len(s) \/ s[Len(s) - Len(out)] = "/")

\* the shapes of content type the documentation speaks of
IsUriLike(s) == StartsWith(s, Http)
SlashAt(s) == {i \in 1..Len(s) : s[i] = "/"}
IsMime(s) ==
    /\ ~IsUriLike(s)
    /\ Cardinality(SlashAt(s)) = 1
    /\ \A i \in SlashAt(s) : 1 < i /\ i < Len(s)
IsBare(s) == s # <<>> /\ NoSlash(s)

\* C9 as stated: the exposed content type is the bare token: the final path
\* segment of a URI-like value, a MIME value with its "type/" prefix stripped,
\* a bare token unchanged.
C9_BareToken ==
    (ct_pc = "read" /\ ct_in # <<>>) =>
        /\ IsUriLike(ct_stored) => IsFinalSegment(ct_out, ct_stored)
        /\ IsMime(ct_stored) => (NoSlash(ct_out) /\ IsFinalSegment(ct_out, ct_stored))
        /\ IsBare(ct_stored) => ct_out = ct_stored

\* C9 amended: a value starting with "http" is exposed as its final path
\* segment; every other value (a MIME value such as text/csv included) is
\* exposed unchanged.
C9_HttpOnlyStripped ==
    (ct_pc = "read" /\ ct_in # <<>>) =>
        IF IsUriLike(ct_stored)
        THEN IsFinalSegment(ct_out, ct_stored)
        ELSE ct_out = ct_stored

C9_Witness ==
    /\ ct_pc = "read"
    /\ ct_in = <<"h", "t", "t", "p", "/", "c">>
    /\ ct_out = <<"c">>

\* C10: once one download() has succeeded, whatever content it returned, every
\* later download() returns the cached content and issues no HTTP request, so
\* the content is fetched successfully at most once.
C10_FetchedAtMostOnce ==
    /\ d_refetch = 0
    /\ d_ok <= 1
    /\ (d_calls > 0 => d_last = d_content)

\* ======================================================= Parser.data_as_db
\* str.lower() of one character
Lower(c) == IF c = "A" THEN "a" ELSE c

\* Parser.normalise_values, one value: lowercase, then blank, dot, dash and
\* parentheses replaced by underscore
NormaliseValue(v) ==
    [i \in 1..Len(v) |-> IF Lower(v[i]) \in {" ", ".", "-", "(", ")"} THEN "_" ELSE Lower(v[i])]

NonEmpty(v) == v # <<>>

RECURSIVE NormaliseEach(_)
NormaliseEach(values) ==
    IF values = <<>> THEN <<>>
    ELSE <<NormaliseValue(Head(values))>> \o NormaliseEach(Tail(values))

\* Parser.normalise_values: "[... for value in values if value]"
NormaliseValues(values) == NormaliseEach(SelectSeq(values, NonEmpty))

\* data_as_db: "table_name = Parser.normalise_values([d.title])[0]"
TableName(title) == NormaliseValues(<<title>>)[1]

\* data_as_db: 'd.title.replace(" ", "_")', the table_name of a manifest row
ManifestName(title) == [i \in 1..Len(title) |-> IF title[i] = " " THEN "_" ELSE title[i]]

ExcelMimes == {"vnd.openxmlformats-officedocument.spreadsheetml.sheet", Excel}
Tabular == {"csv", "json"} \cup ExcelMimes

Has(store, name) == \E t \in store : t.name = name
TableOf(store, name) == CHOOSE t \in store : t.name = name
Without(store, name) == {t \in store : t.name # name}

DataTable(name, i) == [name |-> name, kind |-> "data", src |-> i, rows |-> 1]
ChunkTable(name, j) == [name |-> name, kind |-> "chunk", src |-> j, rows |-> 1]

\* DataFrame.to_sql(name, engine, if_exists=mode) of a one-row frame: the
\* store it leaves, or "raise" in field err
ToSql(store, t, mode) ==
    IF ~Has(store, t.name) THEN [err |-> FALSE, store |-> store \cup {t}]
    ELSE IF mode = "fail" THEN [err |-> TRUE, store |-> store]
    ELSE IF mode = "replace" THEN [err |-> FALSE, store |-> Without(store, t.name) \cup {t}]
    ELSE LET old == TableOf(store, t.name)
         IN IF old.kind # t.kind THEN [err |-> TRUE, store |-> store]
            ELSE [err |-> FALSE,
                  store |-> Without(store, t.name) \cup {[old EXCEPT !.rows = old.rows + t.rows]}]

\* the mode of "content.to_sql(table_name, db_engine)": pandas' default
DataTableMode == "fail"

ManifestRow(title) == [title |-> title, table_name |-> ManifestName(title)]

\* how a data_as_db call ends
DbEnd(raised, store, manifest) ==
    /\ db_pc' = "done"
    /\ db_raised' = raised
    /\ db_runs' = db_runs + 1
    /\ db_snap' = IF db_runs = 0 THEN [taken |-> TRUE, store |-> store, manifest |-> manifest]
                  ELSE db_snap

\* data_as_db is called: "if len(data) == 0: return db_engine"
DbStart ==
    /\ db_pc \in {"idle", "done"}
    /\ db_runs < MaxRuns
    /\ db_tables' = <<>>
    /\ db_i' = 1
    /\ db_j' = 1
    /\ IF Len(db_data) = 0
       THEN DbEnd(FALSE, db_store, db_manifest)
       ELSE /\ db_pc' = "loop"
            /\ db_raised' = FALSE
            /\ UNCHANGED <<db_runs, db_snap>>
    /\ UNCHANGED <<db_data, db_extra, db_if_exists, db_store, db_manifest>>
    /\ UNCHANGED <<authVars, threadVars, dataVars, ctVars, indexVars, chunkVars>>

\* one pass of "for d in data"
DbIngest ==
    /\ db_pc = "loop"
    /\ LET d == db_data[db_i]
           t == DataTable(TableName(d.title), db_i)
           w == ToSql(db_store, t, DataTableMode)
           stored == /\ d.body = "good"
                     /\ d.ctype \in Tabular
                     /\ ~w.err
           \* "except pd.errors.ParserError" skips the dataset only for these types
           fallsThrough == d.body = "bad" /\ d.ctype \in Tabular
                           /\ d.ctype \notin ({"csv", "json"} \cup ExcelMimes)
       IN /\ db_store' = IF stored THEN w.store ELSE db_store
          /\ db_tables' = IF stored \/ fallsThrough
                          THEN Append(db_tables, ManifestRow(d.title))
                          ELSE db_tables
    /\ db_i' = db_i + 1
    /\ db_pc' = IF db_i = Len(db_data) THEN "extra" ELSE "loop"
    /\ UNCHANGED <<db_data, db_extra, db_if_exists, db_manifest, db_j, db_runs, db_raised,
                   db_snap>>
    /\ UNCHANGED <<authVars, threadVars, dataVars, ctVars, indexVars, chunkVars>>

\* one pass of "for i in range(len(additional_information.chunks))"
DbExtra ==
    /\ db_pc = "extra"
    /\ db_j <= Len(db_extra)
    /\ LET title == db_extra[db_j]
           w == ToSql(db_store, ChunkTable(ManifestName(title), db_j), db_if_exists)
       IN IF w.err
          THEN /\ DbEnd(TRUE, db_store, db_manifest)
               /\ UNCHANGED <<db_store, db_tables, db_j>>
          ELSE /\ db_store' = w.store
               /\ db_tables' = Append(db_tables, ManifestRow(title))
               /\ db_j' = db_j + 1
               /\ UNCHANGED <<db_pc, db_runs, db_raised, db_snap>>
    /\ UNCHANGED <<db_data, db_extra, db_if_exists, db_manifest, db_i>>
    /\ UNCHANGED <<authVars, threadVars, dataVars, ctVars, indexVars, chunkVars>>

\* "if len(tables) > 0: ... to_sql('nyx_subscriptions', ...)", then the return
DbManifest ==
    /\ db_pc = "extra"
    /\ db_j > Len(db_extra)
    /\ IF Len(db_tables) = 0
       THEN /\ DbEnd(FALSE, db_store, db_manifest)
            /\ UNCHANGED db_manifest
       ELSE IF db_manifest = <<>> \/ db_if_exists = "replace"
       THEN /\ db_manifest' = db_tables
            /\ DbEnd(FALSE, db_store, db_tables)
       ELSE IF db_if_exists = "fail"
       THEN /\ DbEnd(TRUE, db_store, db_manifest)
            /\ UNCHANGED db_manifest
       ELSE /\ db_manifest' = db_manifest \o db_tables
            /\ DbEnd(FALSE, db_store, db_manifest \o db_tables)
    /\ UNCHANGED <<db_data, db_extra, db_if_exists, db_store, db_tables, db_i, db_j>>
    /\ UNCHANGED <<authVars, threadVars, dataVars, ctVars, indexVars, chunkVars>>

NextIngest ==
    \/ DbStart
    \/ DbIngest
    \/ DbExtra
    \/ DbManifest

\* one Parser and one sqlite file, empty before the first call
InitIngest ==
    /\ ClientNew("")
    /\ DataIdle
    /\ ThreadsIdle
    /\ CtIdle
    /\ IndexIdle
    /\ ChunkIdle
    /\ db_data \in DataLists
    /\ db_extra \in ExtraLists
    /\ db_if_exists \in IfExists
    /\ db_store = {}
    /\ db_manifest = <<>>
    /\ db_tables = <<>>
    /\ db_i = 0
    /\ db_j = 0
    /\ db_pc = "idle"
    /\ db_runs = 0
    /\ db_raised = FALSE
    /\ db_snap = NoSnap

SpecIngest == InitIngest /\ [][NextIngest]_vars

\* ======================================================= claims: data_as_db
DbDone == db_pc = "done"
DataTables(store) == {t \in store : t.kind = "data"}
Failed(d) == d.body # "good"
NumFailed == Cardinality({i \in 1..Len(db_data) : Failed(db_data[i])})
AllTabular == \A i \in 1..Len(db_data) : db_data[i].ctype \in Tabular
FirstRunDone == DbDone /\ db_runs = 1

\* C11: when data_as_db is given N tabular descriptors of which M fail to
\* download or to parse, the call ends without raising and leaves exactly
\* N - M data tables and a manifest of exactly N - M rows.
C11_FailuresSkipped ==
    (FirstRunDone /\ AllTabular /\ db_extra = <<>>)
        => /\ ~db_raised
           /\ Cardinality(DataTables(db_store)) = Len(db_data) - NumFailed
           /\ Len(db_manifest) = Len(db_data) - NumFailed

OneValidCsv == /\ Len(db_data) = 1
               /\ db_data[1].ctype = "csv"
               /\ db_data[1].body = "good"
               /\ db_extra = <<>>

\* C12: ingesting one valid CSV-typed descriptor leaves exactly one data
\* table, named by the slug of the title, and exactly one manifest row, whose
\* table_name is the name of that table; for every title.
C12_RowNamesTable ==
    (FirstRunDone /\ OneValidCsv)
        => /\ \E t \in db_store : db_store = {t} /\ t.kind = "data"
                                  /\ t.name = NormaliseValue(db_data[1].title)
           /\ Len(db_manifest) = 1
           /\ \E t \in db_store : db_manifest[1].table_name = t.name

TableRows(store) == {<<t.name, t.rows>> : t \in store}

\* C13: with if_exists = "replace", a second data_as_db call on the same
\* list and the same store leaves the same tables with the same row counts,
\* the manifest included, as the first call left.
C13_SecondRunChangesNothing ==
    (DbDone /\ db_runs = 2 /\ db_if_exists = "replace")
        => /\ TableRows(db_store) = TableRows(db_snap.store)
           /\ Len(db_manifest) = Len(db_snap.manifest)

\* ======================================================= Parser._chunk_text
\* str.split(): the maximal runs of non-blank characters
RECURSIVE SplitWords(_)
SplitWords(s) ==
    IF s = <<>> THEN <<>>
    ELSE IF Head(s) = " " THEN SplitWords(Tail(s))
    ELSE LET n == CHOOSE k \in 1..Len(s) :
                      /\ \A i \in 1..k : s[i] # " "
                      /\ k = Len(s) \/ s[k + 1] = " "
         IN <<SubSeq(s, 1, n)>> \o SplitWords(SubSeq(s, n + 1, Len(s)))

\* " ".join(words)
RECURSIVE JoinWords(_)
JoinWords(words) ==
    IF words = <<>> THEN <<>>
    ELSE IF Len(words) = 1 THEN words[1]
    ELSE words[1] \o <<" ">> \o JoinWords(Tail(words))

Min(a, b) == IF a < b THEN a ELSE b

\* (mutation) a last window shorter than chunk_size is dropped
ChunkTextDropTail(text, chunk_size) ==
    LET words == SplitWords(text)
    IN [c \in 1..(Len(words) \div chunk_size) |->
            JoinWords(SubSeq(words, (c - 1) * chunk_size + 1, c * chunk_size))]

\* Parser._chunk_text: one chunk for each i in range(0, len(words), chunk_size)
ChunkText(text, chunk_size) ==
    LET words == SplitWords(text)
    IN [c \in 1..((Len(words) + chunk_size - 1) \div chunk_size) |->
            JoinWords(SubSeq(words, (c - 1) * chunk_size + 1,
                             Min(c * chunk_size, Len(words))))]

\* a call of _chunk_text(ck_text, ck_size)
ChunkCall ==
    /\ ck_pc = "new"
    /\ ck_out' = ChunkText(ck_text, ck_size)
    /\ ck_pc' = "done"
    /\ UNCHANGED <<ck_text, ck_size>>
    /\ UNCHANGED <<authVars, threadVars, dataVars, ctVars, dbVars, indexVars>>

NextChunk == ChunkCall

InitChunk ==
    /\ ClientNew("")
    /\ DataIdle
    /\ ThreadsIdle
    /\ CtIdle
    /\ DbIdle
    /\ IndexIdle
    /\ ck_text \in TextStrings
    /\ ck_size \in ChunkSizes
    /\ ck_out = <<>>
    /\ ck_pc = "new"

SpecChunk == InitChunk /\ [][NextChunk]_vars

\* ======================================================= claims: _chunk_text
RECURSIVE WordsOfAll(_)
WordsOfAll(chunks) ==
    IF chunks = <<>> THEN <<>> ELSE SplitWords(Head(chunks)) \o WordsOfAll(Tail(chunks))

\* C16: for chunk_size >= 1 the chunks of _chunk_text are consecutive windows
\* of the text's words: every chunk but the last has exactly chunk_size words,
\* the last has between 1 and chunk_size, and the chunks' words in order are
\* the words of the text.
C16_WindowsCoverText ==
    ck_pc = "done"
        => /\ \A c \in 1..(Len(ck_out) - 1) : Len(SplitWords(ck_out[c])) = ck_size
           /\ Len(ck_out) > 0 => /\ Len(SplitWords(ck_out[Len(ck_out)])) >= 1
                                 /\ Len(SplitWords(ck_out[Len(ck_out)])) <= ck_size
           /\ WordsOfAll(ck_out) = SplitWords(ck_text)

C16_Witness ==
    /\ ck_pc = "done"
    /\ Len(ck_out) >= 2
    /\ Len(SplitWords(ck_out[Len(ck_out)])) < ck_size

\* ======================================================= Parser: chunk index
\* Metadata(d.title, d.url, d.description)
MetadataOf(d) == [title |-> d.title]

\* TfidfVectorizer's default token pattern: a word of two or more characters
HasToken(chunk) == \E i \in 1..Len(SplitWords(chunk)) : Len(SplitWords(chunk)[i]) >= 2

\* fit_transform raises ValueError (empty vocabulary) when no chunk has a token
Fits(chunks) == \E i \in 1..Len(chunks) : HasToken(chunks[i])

\* (mutation) the call goes on to fit with no chunk at all
NothingToIndexIgnored(chunks) == FALSE

\* data_as_vectors: "if not all_chunks: return"
NothingToIndex(chunks) == chunks = <<>>

\* (mutation) the new list is added to the one already stored
StoredAppended(old, new) == old \o new

\* data_as_vectors: "self.chunks = all_chunks", "self.metadata = all_metadata"
Stored(old, new) == new

\* (mutation) one Metadata for the dataset, not one for each chunk
ChunkMetadataOnce(d, chunks) == <<MetadataOf(d)>>

\* data_as_vectors: "[Metadata(d.title, d.url, d.description) for _ in chunks]"
ChunkMetadata(d, chunks) == [c \in 1..Len(chunks) |-> MetadataOf(d)]

\* Parser.data_as_vectors(data, chunk_size) is called
VecStart(chunk_size) ==
    /\ v_pc = "idle"
    /\ v_builds < MaxBuilds
    /\ v_builds' = v_builds + 1
    /\ v_pc' = "loop"
    /\ v_size' = chunk_size
    /\ v_n' = 0
    /\ all_chunks' = <<>>
    /\ all_metadata' = <<>>
    /\ v_raised' = FALSE
    /\ v_prev' = Len(p_chunks)
    /\ q_in' = NoQuery
    /\ q_out' = NoResult
    /\ q_calls' = 0
    /\ UNCHANGED <<p_chunks, p_metadata, p_vectorizer, p_vectors, v_yielded>>
    /\ UNCHANGED <<authVars, threadVars, dataVars, ctVars, dbVars, chunkVars>>

\* one pass of "for d in data", d the next dataset of the list
VecDoc(d) ==
    /\ v_pc = "loop"
    /\ v_n < MaxDocs
    /\ v_n' = v_n + 1
    /\ IF d.ctype # "csv" /\ d.content # <<>>
       THEN LET chunks == ChunkText(d.content, v_size)
            IN /\ all_chunks' = all_chunks \o chunks
               /\ all_metadata' = all_metadata \o ChunkMetadata(d, chunks)
       ELSE UNCHANGED <<all_chunks, all_metadata>>
    /\ UNCHANGED <<p_chunks, p_metadata, p_vectorizer, p_vectors, v_pc, v_size, v_prev,
                   v_builds, v_yielded, v_raised, q_in, q_out, q_calls>>
    /\ UNCHANGED <<authVars, threadVars, dataVars, ctVars, dbVars, chunkVars>>

\* the list is through: "if not all_chunks: return", else store and fit
VecEnd ==
    /\ v_pc = "loop"
    /\ v_pc' = "idle"
    /\ v_n' = 0
    /\ v_size' = 1
    /\ v_yielded' = (v_yielded \/ all_chunks # <<>>)
    /\ IF NothingToIndex(all_chunks)
       THEN UNCHANGED <<p_chunks, p_metadata, p_vectorizer, p_vectors, v_raised>>
       ELSE /\ p_chunks' = Stored(p_chunks, all_chunks)
            /\ p_metadata' = Stored(p_metadata, all_metadata)
            /\ IF Fits(p_chunks')
               THEN /\ p_vectorizer' = "fitted"
                    /\ p_vectors' = p_chunks'
                    /\ v_raised' = FALSE
               ELSE /\ p_vectorizer' = "unfitted"
                    /\ v_raised' = TRUE
                    /\ UNCHANGED p_vectors
    /\ UNCHANGED <<all_chunks, all_metadata, v_prev, v_builds, q_in, q_out, q_calls>>
    /\ UNCHANGED <<authVars, threadVars, dataVars, ctVars, dbVars, chunkVars>>

\* cosine_similarity(query_vector, self.vectors)[0]: one score for each row;
\* equal chunks have equal rows, a chunk without a token has a zero row
Scores(rows) ==
    LET texts == {rows[i] : i \in 1..Len(rows)}
    IN {[i \in 1..Len(rows) |-> IF HasToken(rows[i]) THEN f[rows[i]] ELSE 0] :
            f \in [texts -> Sims]}

\* ndarray.argsort(): an order of the indices by ascending score; the default
\* sort is not stable, equal scores may come in either order
RECURSIVE OrdersOf(_, _)
OrdersOf(sc, rest) ==
    IF rest = {} THEN {<<>>}
    ELSE UNION {{<<i>> \o o : o \in OrdersOf(sc, rest \ {i})} :
                    i \in {j \in rest : \A m \in rest : sc[j] <= sc[m]}}

AscendingOrders(sc) == OrdersOf(sc, 1..Len(sc))

\* find_matching_chunk: "argsort()[-k:][::-1]"; the slice [-k:] is the whole
\* array for k = 0 and for k >= len
TopIndices(order, k) ==
    LET n == Len(order)
        kept == IF k = 0 \/ k >= n THEN order ELSE SubSeq(order, n - k + 1, n)
    IN [i \in 1..Len(kept) |-> kept[Len(kept) + 1 - i]]

FailureResult(message) ==
    [raised |-> FALSE, success |-> FALSE, message |-> message, chunks |-> <<>>,
     similarities |-> <<>>, metadata |-> <<>>]

Raised == [NoResult EXCEPT !.raised = TRUE]

\* (mutation) query goes on to the vectorizer whatever it is
IndexMissingIgnored(vectorizer) == FALSE

\* query: "if self.vectorizer is None"
IndexMissing(vectorizer) == vectorizer = None

\* Parser.query(text, k); text only shows in the scores it gets against the
\* rows of the index. query leaves the parser as it is, so one query for each
\* index is followed
Query(k) ==
    /\ v_pc = "idle"
    /\ q_calls = 0
    /\ q_calls' = q_calls + 1
    /\ IF IndexMissing(p_vectorizer)
       THEN /\ q_in' = [k |-> k, sims |-> <<>>]
            /\ q_out' = FailureResult("content not processed, or not present on the data (do you have access?)")
       ELSE IF p_vectorizer # "fitted"
       THEN /\ q_in' = [k |-> k, sims |-> <<>>]
            /\ q_out' = Raised
       ELSE IF p_vectors = <<>>
       THEN /\ q_in' = [k |-> k, sims |-> <<>>]
            /\ q_out' = FailureResult("content has either not been processed, or you have no plain text")
       ELSE \E sc \in Scores(p_vectors) : \E order \in AscendingOrders(sc) :
                LET top == TopIndices(order, k)
                IN /\ q_in' = [k |-> k, sims |-> sc]
                   /\ q_out' = [raised |-> FALSE, success |-> TRUE, message |-> "",
                                chunks |-> [i \in 1..Len(top) |-> p_chunks[top[i]]],
                                similarities |-> [i \in 1..Len(top) |-> sc[top[i]]],
                                metadata |-> [i \in 1..Len(top) |-> p_metadata[top[i]]]]
    /\ UNCHANGED <<p_chunks, p_metadata, p_vectorizer, p_vectors, all_chunks,
                   all_metadata, v_pc, v_size, v_n, v_prev, v_builds, v_yielded,
                   v_raised>>
    /\ UNCHANGED <<authVars, threadVars, dataVars, ctVars, dbVars, chunkVars>>

NextIndex ==
    \/ \E chunk_size \in ChunkSizes : VecStart(chunk_size)
    \/ \E d \in Documents : VecDoc(d)
    \/ VecEnd
    \/ \E k \in 0..MaxK : Query(k)

InitIndex == ClientNew("") /\ DataIdle /\ CtIdle /\ ParserIdle /\ ThreadsIdle

SpecIndex == InitIndex /\ [][NextIndex]_vars

\* ======================================================= claims: chunk index
Queried == v_pc = "idle" /\ q_calls > 0

\* C14: query on a parser whose index has never been built returns, without
\* raising, a result with success = False, a non-empty message and empty
\* chunks, similarities and metadata.
C14_UnbuiltQueryFails ==
    (Queried /\ ~v_yielded)
        => /\ ~q_out.raised
           /\ ~q_out.success
           /\ q_out.message # ""
           /\ q_out.chunks = <<>>
           /\ q_out.similarities = <<>>
           /\ q_out.metadata = <<>>

C14_Witness == Queried /\ v_builds = 0 /\ ~q_out.success /\ q_out.message # ""

Fitted == v_pc = "idle" /\ p_vectorizer = "fitted"

NonIncreasing(q) == \A i \in 1..(Len(q) - 1) : q[i] >= q[i + 1]

\* C15: on a built index, for every query and every k >= 0, query returns at
\* most k chunks, with similarities in non-increasing order, each chunk
\* together with its own similarity and metadata.
C15_AtMostK ==
    (Queried /\ Fitted)
        => /\ ~q_out.raised /\ q_out.success
           /\ Len(q_out.chunks) <= q_in.k
           /\ Len(q_out.similarities) = Len(q_out.chunks)
           /\ Len(q_out.metadata) = Len(q_out.chunks)
           /\ NonIncreasing(q_out.similarities)
           /\ \A j \in 1..Len(q_out.chunks) :
                \E i \in 1..Len(p_chunks) : /\ q_out.chunks[j] = p_chunks[i]
                                            /\ q_out.similarities[j] = q_in.sims[i]
                                            /\ q_out.metadata[j] = p_metadata[i]

\* C17: a data_as_vectors call that yields no chunk on a parser that was never
\* built leaves the index unbuilt, and a query after it returns the failure
\* result.
C17_NoChunksNoIndex ==
    (v_pc = "idle" /\ ~v_yielded)
        => /\ p_vectorizer = None /\ p_vectors = <<>> /\ p_chunks = <<>>
           /\ Queried => (~q_out.raised /\ ~q_out.success /\ q_out.chunks = <<>>)

C17_Witness == Queried /\ v_builds > 0 /\ ~v_yielded /\ ~q_out.success /\ ~q_out.raised

\* a second or later data_as_vectors call has returned, and no fit has failed
SecondCallOver == v_pc = "idle" /\ v_builds >= 2 /\ ~v_raised /\ p_vectorizer # "unfitted"

C18_State ==
    (SecondCallOver /\ all_chunks # <<>>)
        => /\ p_chunks = all_chunks
           /\ p_metadata = all_metadata
           /\ p_vectors = all_chunks
           /\ p_vectorizer = "fitted"

C18_Step ==
    (v_pc = "loop" /\ v_pc' = "idle" /\ all_chunks = <<>>)
        => UNCHANGED <<p_chunks, p_metadata, p_vectors, p_vectorizer>>

C19_State ==
    /\ Len(p_chunks) = Len(p_metadata)
    /\ Len(all_chunks) = Len(all_metadata)

C19_Step ==
    /\ (v_pc = "loop" /\ v_pc' = "loop")
         => \E d \in Documents : \E cut \in {<<>>, ChunkText(d.content, v_size)} :
                /\ all_chunks' = all_chunks \o cut
                /\ all_metadata' = all_metadata \o [c \in 1..Len(cut) |-> [title |-> d.title]]
    /\ (v_pc = "loop" /\ v_pc' = "idle" /\ all_chunks # <<>>)
         => (p_chunks' = all_chunks /\ p_metadata' = all_metadata)

\* C19: whatever data_as_vectors calls were made, the chunk list and the
\* metadata list of the index have the same length and chunk i carries the
\* metadata of the dataset it was cut from, datasets in the order of the list:
\* each dataset in turn adds its chunks and as many copies of its own
\* metadata, and these two lists are what the call stores.
C19_MetadataAligned == [](C19_State) /\ [][C19_Step]_vars

C19_Witness ==
    /\ Fitted
    /\ Len(p_chunks) >= 3
    /\ p_metadata[1] # p_metadata[Len(p_metadata)]
    /\ p_metadata[1] = p_metadata[2]

\* ======================================================= claims: re-authentication
\* the _authorise(refresh=True) calls that have started and not yet ended
ForcedInFlight == {i \in 1..Len(stack) : stack[i].fn = "authorise" /\ stack[i].refresh}

\* C20: at most one forced re-authentication is in flight in a client
\* session: while one _authorise(refresh=True) is executing, its login
\* request answered 401 included, no second one is started.
C20_OneRefreshInFlight == Cardinality(ForcedInFlight) <= 1
\* ======================================================= claims: _authorise
LoginRequests == {i \in 1..Len(sent) : sent[i].ep = NYX_AUTH_LOGIN_ENDPOINT}
LoginAlways401 == \A i \in LoginRequests : sent[i].st = 401
NetworkUp == \A i \in 1..Len(sent) : sent[i].st # 0
AuthoriseCalled == topKind = "authorise"

C21_State ==
    (AuthoriseCalled /\ LoginAlways401)
        => /\ Cardinality(LoginRequests) <= 2
           /\ result # "ok"
           /\ (stack = <<>> /\ NetworkUp) => result \in {"HTTP401", "HTTPError"}

\* C21: _authorise() called while the login endpoint answers every login
\* request with 401 sends at most two login requests, never returns normally,
\* and ends: it raises an HTTPError to the caller (the recursion through
\* auth_retry, _authorise and _nyx_post does not loop).
C21_AuthoriseTerminates ==
    [](C21_State) /\ ((AuthoriseCalled /\ stack # <<>>) ~> (stack = <<>>))

C21_Witness ==
    /\ AuthoriseCalled
    /\ stack = <<>>
    /\ LoginAlways401
    /\ Cardinality(LoginRequests) = 2
    /\ result = "HTTP401"

\* ======================================================= claims: the _retried flag
C22_State ==
    /\ stack = <<>> => \A o \in Ops : ~retried[o]
    /\ topKind \in Ops => Len(att) <= 2
    /\ (topKind \in Ops /\ Len(att) >= 1 /\ att[1].st = 401) => reauths >= 1

\* the first attempt of the top-level call is answered 401 in this step
FirstAttempt401 ==
    /\ stack # <<>>
    /\ Top.tracked /\ Top.pc = "try1"
    /\ Len(att') = 1 /\ att'[1].st = 401

C22_Step ==
    FirstAttempt401
        => /\ Len(stack') = Len(stack) + 1
           /\ stack'[Len(stack)].pc = "try2"
           /\ stack'[Len(stack')].fn = "authorise" /\ stack'[Len(stack')].refresh
           /\ retried'[Top.op]

\* C22: whenever no call is in progress every wrapper's _retried flag is
\* False, however the calls before ended; so the first 401 of any top-level
\* call makes its wrapper set the flag and call _authorise(refresh=True)
\* before one second attempt, and no call makes more than two attempts.
C22_FlagResetAfterCall == [](C22_State) /\ [][C22_Step]_vars

C22_Witness ==
    /\ CallOver
    /\ ncalls = 2
    /\ Len(att) = 2 /\ att[1].st = 401 /\ att[2].st = 401
    /\ reauths = 1
    /\ result = "HTTP401"
    /\ \A o \in Ops : ~retried[o]

\* ======================================================= claims: failed setup
SetupFailedCall == stack = <<>> /\ setupFailed

\* C23: while _setup runs it is on the stack once and has not run before (its
\* own requests do not enter it again), and when it raises during the call that triggered
\* it the error reaches the caller and the wrapped operation was never
\* executed: no request of the operation itself was sent.
C23_FailedSetupNotRetried ==
    /\ SetupOnStack => (setupRuns <= 1 /\ Cardinality(SetupFrames) = 1)
    /\ SetupFailedCall
        => /\ result \in Errors
           /\ setupRuns = 1
           /\ att = <<>>
           /\ \A i \in 1..Len(sent) : sent[i].ep # NYX_PRODUCTS_ENDPOINT

C23_Witness ==
    /\ SetupFailedCall
    /\ topKind \in Ops
    /\ result = "HTTPError"
    /\ setupRuns = 1
    /\ Len(sent) >= 2
    /\ att = <<>>

\* ======================================================= claims: login and tokens
\* C24: on a client built without an override token the first request of the
\* first call is the login request, and the users/me and auth/qapi-connection
\* requests of _setup carry a bearer token.
C24_SetupLogsInFirst ==
    (Fresh /\ ncalls = 1 /\ Len(sent) >= 1)
        => /\ sent[1].ep = NYX_AUTH_LOGIN_ENDPOINT
           /\ \A i \in 1..Len(sent) :
                 sent[i].ep \in {NYX_USERS_ME_ENDPOINT, NYX_AUTH_QAPI_CONNECTION_ENDPOINT}
                     => sent[i].authorization # <<>>

\* the token the session held when the forced re-authentication began is the
\* one attached to the request that was answered 401
StaleLogin(i) ==
    /\ sent[i].ep = NYX_AUTH_LOGIN_ENDPOINT
    /\ i > 1
    /\ sent[i - 1].st = 401
    /\ sent[i - 1].authorization # <<>>
    /\ sent[i].authorization = sent[i - 1].authorization

\* C25: a forced re-authentication discards the cached token first: the login
\* request it sends does not carry the token that was just rejected, and a
\* call that ends because the re-login failed does not leave that token in
\* the session.
C25_StaleTokenDiscarded ==
    topKind \in Ops
        => /\ \A i \in 1..Len(sent) : ~StaleLogin(i)
           /\ (stack = <<>> /\ Len(att) = 1 /\ att[1].st = 401 /\ reauths >= 1
                  /\ Len(sent) >= 1 /\ sent[1].ep = NYX_PRODUCTS_ENDPOINT)
                 => MakeHeaders(token) # sent[1].authorization

\* ======================================================= claims: tables and manifest
\* descriptor i of the list downloads and parses as a table
Parsed(i) == db_data[i].body = "good" /\ db_data[i].ctype \in Tabular
ParsedSet == {i \in 1..Len(db_data) : Parsed(i)}
SameTable(i, j) == TableName(db_data[i].title) = TableName(db_data[j].title)
LastOfName(i) == \A j \in ParsedSet : SameTable(i, j) => j <= i

\* C26: after a call with the default if_exists and without supplementary
\* chunks, every descriptor that parsed has its manifest row, and the table
\* of its name holds the content of the last parsed descriptor of that name:
\* a later descriptor replaces the table an earlier one wrote.
C26_SameNameReplaces ==
    (DbDone /\ db_extra = <<>> /\ db_if_exists = "replace")
        => /\ ~db_raised
           /\ Len(db_manifest) >= Cardinality(ParsedSet)
           /\ \A i \in ParsedSet :
                 LastOfName(i)
                     => \E t \in db_store : /\ t.name = TableName(db_data[i].title)
                                             /\ t.kind = "data"
                                             /\ t.src = i

\* the datasets the supplementary chunks come from, told apart by their title
ChunkedDatasets == {db_extra[j] : j \in 1..Len(db_extra)}
DistinctTables == \A i, j \in ParsedSet : SameTable(i, j) => i = j

\* C27: after a first call that did not raise, on descriptors of pairwise
\* different table names, the manifest has one row for each descriptor that
\* parsed and one row for each dataset that supplied chunks, however many
\* chunks it supplied.
C27_OneRowPerDataset ==
    (FirstRunDone /\ ~db_raised /\ DistinctTables /\ Len(db_data) > 0)
        => Len(db_manifest) = Cardinality(ParsedSet) + Cardinality(ChunkedDatasets)

\* ======================================================= claims: ranking
\* the chunks of the index are pairwise different, so a returned chunk tells
\* the index it came from
DistinctChunks == \A i, j \in 1..Len(p_chunks) : p_chunks[i] = p_chunks[j] => i = j
IndexOf(chunk) == CHOOSE i \in 1..Len(p_chunks) : p_chunks[i] = chunk
Returned == {IndexOf(q_out.chunks[i]) : i \in 1..Len(q_out.chunks)}

\* C28: among chunks of exactly equal similarity the one of the lower index
\* is ranked first, and when the cut at k leaves out a chunk that ties with a
\* returned one, the chunk left out has the higher index.
C28_LowerIndexWinsTies ==
    (Queried /\ q_out.success /\ DistinctChunks /\ q_in.k >= 1)
        => /\ \A i \in 1..(Len(q_out.chunks) - 1) :
                 q_out.similarities[i] = q_out.similarities[i + 1]
                     => IndexOf(q_out.chunks[i]) < IndexOf(q_out.chunks[i + 1])
           /\ \A i \in Returned : \A j \in (1..Len(p_chunks)) \ Returned :
                 q_in.sims[i] = q_in.sims[j] => i < j

\* ======================================================= claims: tabular content
\* C29: a descriptor of a tabular content type (csv, json or an Excel type,
\* the types data_as_db reads as tables) adds no chunk to the list
\* data_as_vectors collects.
C29_Step ==
    \A d \in Documents :
        (VecDoc(d) /\ d.ctype \in Tabular)
            => (all_chunks' = all_chunks /\ all_metadata' = all_metadata)

C29_TabularNotChunked == [][C29_Step]_vars

\* ======================================================= claims: concurrent calls
\* C30: whatever the other thread's call is doing, a call whose first
\* attempt was answered 401 has re-authenticated once before it ends, and
\* has made exactly one more attempt when the re-authentication returned.
C30_RetryPerCall ==
    \A t \in Threads :
        (w_call[t].pc = "done" /\ w_call[t].att[1].st = 401)
            => /\ w_call[t].relogin # "none"
               /\ w_call[t].relogin = "ok" => Len(w_call[t].att) = 2

====
